---------------------------- MODULE Spec2Model ----------------------------
(***************************************************************************)
(* Model of src/lib/prisma.ts: a facade over two database clients          *)
(* ("main" and "primary") with per-call write routing, a transaction       *)
(* router, a health probe and a shutdown routine.                          *)
(*                                                                         *)
(* Conventions.  A JavaScript string is a sequence of tokens (its pieces), *)
(* so that startsWith is "is a prefix of" and includes is "occurs in".     *)
(* A JavaScript object is a function from the keys it has to values, so    *)
(* that deleting a key shrinks the domain.  Scalar values are written as   *)
(* their source text ("true", "false", "5000").  A client instance is its  *)
(* index in clients; 0 is undefined.                                       *)
(***************************************************************************)
EXTENDS Naturals, Sequences, FiniteSets

VARIABLES
    window,          \* TRUE iff typeof window !== "undefined" (browser context)
    env,             \* process.env: a function from the variables that are set
    globalForPrisma, \* globalThis slots prismaMain / prismaPrimary
    clients,         \* every PrismaClient constructed so far, in order
    prismaMain,      \* module-level const of the current module instance
    prismaPrimary,   \* module-level const of the current module instance
    loaded,          \* the module has been evaluated to its end at least once
    startupError,    \* message of the error that aborted the last evaluation
    inits,           \* module evaluations so far (first load and hot reloads)
    listeners,       \* setupGracefulShutdown registrations made on process, each
                     \* with the two clients its handlers close over
    proc,            \* the process: running, or exited with a code
    last,            \* the call through the exported API now returning; NoCall between calls
    disc             \* invocations of disconnectPrisma

vars == <<window, env, globalForPrisma, clients, prismaMain, prismaPrimary,
          loaded, startupError, inits, listeners, proc, last, disc>>

(***************************************************************************)
(* Bounds                                                                  *)
(***************************************************************************)
MaxInits == 3
MaxBatch == 2
MaxDisconnects == 2

Undefined == 0

(***************************************************************************)
(* Strings                                                                 *)
(***************************************************************************)
EmptyString == << >>

StartsWith(s, p) ==
    /\ Len(p) <= Len(s)
    /\ \A i \in 1..Len(p) : s[i] = p[i]

Includes(s, p) ==
    \E k \in 0..Len(s) :
        /\ k + Len(p) <= Len(s)
        /\ \A i \in 1..Len(p) : s[k + i] = p[i]

Contains(s, tok) == \E i \in 1..Len(s) : s[i] = tok

PgUrl         == <<"postgresql://", "main-host/db">>
PgPrimaryUrl  == <<"postgresql://", "primary-host/db">>
MysqlUrl      == <<"mysql://", "main-host/db">>
SqliteUrl     == <<"file:", "./dev.db">>
EmbeddedPgUrl == <<"jdbc:", "postgresql://", "main-host/db">>

(***************************************************************************)
(* Objects                                                                 *)
(***************************************************************************)
EmptyObject == [k \in {} |-> "undefined"]

Has(obj, k) == k \in DOMAIN obj

\* obj[k] of JavaScript: "undefined" for a key the object does not have
Get(obj, k) == IF k \in DOMAIN obj THEN obj[k] ELSE "undefined"

Truthy(v) == v \notin {"undefined", "false", "null", "0", ""}

\* every object over the given keys, each key absent or bound to one of its values
ObjectsOver(valuesOf) ==
    UNION { { f \in [d -> UNION { valuesOf[k] : k \in d }] :
                \A k \in d : f[k] \in valuesOf[k] } : d \in SUBSET DOMAIN valuesOf }

(***************************************************************************)
(* 1. Environment validation                                               *)
(***************************************************************************)
NoError == << >>

\* !value for an entry of process.env: unset or the empty string
Missing(e, key) == ~ Has(e, key) \/ e[key] = EmptyString

validateEnvironment_includes(win, e) ==
    IF win THEN NoError
    ELSE IF Missing(e, "DATABASE_URL")
         THEN <<"Missing required env variable: ", "DATABASE_URL">>
    ELSE IF Missing(e, "NODE_ENV")
         THEN <<"Missing required env variable: ", "NODE_ENV">>
    ELSE IF /\ ~ Includes(e["DATABASE_URL"], <<"postgresql://">>)
            /\ ~ Includes(e["DATABASE_URL"], <<"mysql://">>)
         THEN <<"Invalid DATABASE_URL. Must start with postgresql:// or mysql://">>
    ELSE NoError

\* the message of the error validateEnvironment throws, NoError when it returns
validateEnvironment(win, e) ==
    IF win THEN NoError
    ELSE IF Missing(e, "DATABASE_URL")
         THEN <<"Missing required env variable: ", "DATABASE_URL">>
    ELSE IF Missing(e, "NODE_ENV")
         THEN <<"Missing required env variable: ", "NODE_ENV">>
    ELSE IF /\ ~ StartsWith(e["DATABASE_URL"], <<"postgresql://">>)
            /\ ~ StartsWith(e["DATABASE_URL"], <<"mysql://">>)
         THEN <<"Invalid DATABASE_URL. Must start with postgresql:// or mysql://">>
    ELSE NoError

isServer == ~ window

(***************************************************************************)
(* 2. Client options                                                       *)
(***************************************************************************)
createPrismaOptions(databaseUrl) ==
    [ errorFormat     |-> "pretty",
      url             |-> databaseUrl,
      connectionLimit |-> IF Includes(databaseUrl, <<"postgresql://">>) THEN 1 ELSE 0 ]

\* new PrismaClient(options)
PrismaClient(role, options) == [role |-> role, options |-> options, open |-> TRUE]

(***************************************************************************)
(* 4-5. Process-wide slots and the two clients                             *)
(***************************************************************************)
reuseOrConstruct_alwaysNew(existing, fresh) == fresh

\* existing ?? new PrismaClient(...)
reuseOrConstruct(existing, fresh) ==
    IF existing # Undefined THEN existing ELSE fresh

\* process.env.DATABASE_PRIMARY_URL || process.env.DATABASE_URL!
primaryUrl(e) ==
    IF ~ Missing(e, "DATABASE_PRIMARY_URL") THEN e["DATABASE_PRIMARY_URL"]
    ELSE e["DATABASE_URL"]

NoCall == [op |-> "none"]

\* One evaluation of the module's top level (first import or a hot reload).
ModuleInit ==
    /\ ~ proc.exited
    /\ inits < MaxInits
    /\ inits' = inits + 1
    /\ LET err == validateEnvironment(window, env) IN
       IF err # NoError
       THEN \* validateEnvironment() throws: evaluation stops at line 44
            /\ startupError' = err
            /\ UNCHANGED <<globalForPrisma, clients, prismaMain, prismaPrimary,
                           loaded, listeners>>
       ELSE IF ~ isServer
       THEN /\ prismaMain' = Undefined
            /\ prismaPrimary' = Undefined
            /\ loaded' = TRUE
            /\ startupError' = NoError
            /\ UNCHANGED <<globalForPrisma, clients, listeners>>
       ELSE LET freshMain == Len(clients) + 1
                newMain   == reuseOrConstruct(globalForPrisma.prismaMain, freshMain)
                clients1  == IF newMain = freshMain
                             THEN Append(clients,
                                    PrismaClient("main",
                                        createPrismaOptions(env["DATABASE_URL"])))
                             ELSE clients
                freshPrim == Len(clients1) + 1
                newPrim   == reuseOrConstruct(globalForPrisma.prismaPrimary, freshPrim)
                clients2  == IF newPrim = freshPrim
                             THEN Append(clients1,
                                    PrismaClient("primary",
                                        createPrismaOptions(primaryUrl(env))))
                             ELSE clients1
            IN  /\ clients' = clients2
                /\ prismaMain' = newMain
                /\ prismaPrimary' = newPrim
                /\ globalForPrisma' =
                      IF env["NODE_ENV"] # <<"production">>
                      THEN [prismaMain |-> newMain, prismaPrimary |-> newPrim]
                      ELSE globalForPrisma
                /\ loaded' = TRUE
                /\ startupError' = NoError
                /\ listeners' = Append(listeners,
                                        [main |-> newMain, primary |-> newPrim])
    /\ UNCHANGED <<window, env, proc, last, disc>>


(***************************************************************************)
(* The underlying clients (external): what a forwarded call can do         *)
(***************************************************************************)
ModelNames == {"product", "order"}

WRITE_METHODS ==
    {"create", "update", "delete", "upsert", "createMany", "updateMany", "deleteMany"}

\* methods of a model delegate outside WRITE_METHODS
READ_METHODS == {"findMany", "findUnique"}

Methods == WRITE_METHODS \cup READ_METHODS

Returns == [kind |-> "return", isError |-> FALSE, message |-> EmptyString]

\* a forwarded call returns, throws synchronously, or returns a promise that
\* rejects later; what is thrown is an Error with a message or some other value
Outcomes ==
    {Returns} \cup
    [kind : {"throw", "reject"}, isError : {TRUE}, message : {<<"unique violation">>}] \cup
    [kind : {"throw", "reject"}, isError : {FALSE}, message : {EmptyString}]

\* one call received by a client
Call(conn, inst, modelName, member, args) ==
    [conn |-> conn, inst |-> inst, modelName |-> modelName,
     member |-> member, args |-> args]

(***************************************************************************)
(* 6-7. Write methods and cleanOptions                                     *)
(***************************************************************************)
isWriteMethod_always(method) == TRUE

isWriteMethod(method) == method \in WRITE_METHODS

cleanOptions_noDelete(args, keys) == args

cleanOptions(args, keys) == [k \in (DOMAIN args) \ keys |-> args[k]]

(***************************************************************************)
(* 8. Method proxy for models                                              *)
(***************************************************************************)
ArgValues ==
    [data |-> {"X"}, where |-> {"W"}, writeToPrimary |-> {"true", "false"}]

ArgObjects == ObjectsOver(ArgValues)

\* an argument list: empty, or one argument object
ArgLists == {<< >>} \cup { <<a>> : a \in ArgObjects }

\* (args: any = {})
defaultArg(argv) == IF Len(argv) = 0 THEN EmptyObject ELSE argv[1]

wantsPrimary_hasKey(args) == Has(args, "writeToPrimary")

\* args?.writeToPrimary
wantsPrimary(args) == Truthy(Get(args, "writeToPrimary"))

errorContext(methodName, modelName) ==
    <<" (", "Method: ", methodName, ", Model: ", modelName, ")">>

\* The function the method proxy's get trap returns, applied to argv, when the
\* forwarded call behaves as outcome: the call the chosen client receives and
\* what the caller gets back.
createMethodProxy(mainInst, primaryInst, modelName, method, argv, outcome) ==
    LET args      == defaultArg(argv)
        isWrite   == isWriteMethod(method)
        toPrimary == isWrite /\ wantsPrimary(args)
        cleaned   == IF isWrite THEN cleanOptions(args, {"writeToPrimary"}) ELSE args
        received  == IF toPrimary
                     THEN Call("primary", primaryInst, modelName, method, cleaned)
                     ELSE Call("main", mainInst, modelName, method, cleaned)
        result    ==
            CASE outcome.kind = "return" ->
                    [kind |-> "value", isError |-> FALSE, message |-> EmptyString]
              [] outcome.kind = "throw" ->
                    \* caught at line 147; an Error gets the context appended
                    [kind    |-> "thrown",
                     isError |-> outcome.isError,
                     message |-> IF outcome.isError
                                 THEN outcome.message \o errorContext(method, modelName)
                                 ELSE outcome.message]
              [] outcome.kind = "reject" ->
                    \* the promise is returned without await: the catch never sees it
                    [kind    |-> "rejected",
                     isError |-> outcome.isError,
                     message |-> outcome.message]
    IN  [received |-> received, result |-> result]

ClientOnlyError ==
    [kind |-> "thrown", isError |-> TRUE,
     message |-> <<"Prisma is not available on the client. Import server-only modules from server components or API routes.">>]

NoTransaction == [conn |-> "none", inst |-> Undefined, options |-> EmptyObject]

\* prisma.<modelName>.<method>(...argv)
EntityCall ==
    /\ ~ proc.exited
    /\ loaded
    /\ last = NoCall
    /\ \E modelName \in ModelNames, method \in Methods, argv \in ArgLists,
          outcome \in Outcomes :
          IF ~ isServer
          THEN \* the client-side proxy throws on every property read
               last' = [op |-> "entity", modelName |-> modelName, method |-> method,
                        argv |-> argv, outcome |-> outcome, batch |-> << >>,
                        forwarded |-> {}, transaction |-> NoTransaction,
                        result |-> ClientOnlyError, logged |-> EmptyString]
          ELSE LET r == createMethodProxy(prismaMain, prismaPrimary, modelName,
                                          method, argv, outcome)
               IN  last' = [op |-> "entity", modelName |-> modelName, method |-> method,
                            argv |-> argv, outcome |-> outcome, batch |-> << >>,
                            forwarded |-> {r.received}, transaction |-> NoTransaction,
                            result |-> r.result, logged |-> EmptyString]
    /\ UNCHANGED <<window, env, proc, globalForPrisma, clients, prismaMain, prismaPrimary,
                   loaded, startupError, inits, listeners, disc>>

\* the caller has received the outcome of its call: the invocation is over
Return ==
    /\ ~ proc.exited
    /\ last # NoCall
    /\ last' = NoCall
    /\ UNCHANGED <<window, env, proc, globalForPrisma, clients, prismaMain, prismaPrimary,
                   loaded, startupError, inits, listeners, disc>>

(***************************************************************************)
(* 9. $transaction through the facade                                      *)
(***************************************************************************)
OptionValues ==
    [writeToPrimary |-> {"true", "false"}, timeout |-> {"5000"},
     isolationLevel |-> {"Serializable"}]

OptionObjects == ObjectsOver(OptionValues)

OptionLists == {<< >>} \cup { <<o>> : o \in OptionObjects }

\* The operations a caller can put in a batch: what the facade's model
\* delegates return, each bound to the client whose method produced it.
BatchMethods == {"create", "findMany"}

BatchArgLists == {<< >>, <<[k \in {"writeToPrimary"} |-> "true"]>>}

PreparedOperations(mainInst, primaryInst) ==
    { createMethodProxy(mainInst, primaryInst, modelName, method, argv, Returns).received :
        modelName \in ModelNames, method \in BatchMethods, argv \in BatchArgLists }

Batches(ops) == UNION { [1..n -> ops] : n \in 1..MaxBatch }

\* const { writeToPrimary, timeout, ...rest } = options || {}; { timeout, ...rest }
transactionOptions(optv) ==
    LET options == defaultArg(optv)
        rest    == cleanOptions(options, {"writeToPrimary", "timeout"})
    IN  [k \in {"timeout"} \cup DOMAIN rest |->
            IF k = "timeout" THEN Get(options, "timeout") ELSE rest[k]]

\* if (writeToPrimary) ... prismaPrimary.$transaction else prismaMain.$transaction
transactionTarget(optv) ==
    IF Truthy(Get(defaultArg(optv), "writeToPrimary")) THEN "primary" ELSE "main"

\* prisma.$transaction(batch, ...optv)
Transaction ==
    /\ ~ proc.exited
    /\ loaded
    /\ last = NoCall
    /\ \E optv \in OptionLists, outcome \in Outcomes :
          IF ~ isServer
          THEN last' = [op |-> "transaction", modelName |-> "", method |-> "$transaction",
                        argv |-> optv, outcome |-> outcome, batch |-> << >>,
                        forwarded |-> {}, transaction |-> NoTransaction,
                        result |-> ClientOnlyError, logged |-> EmptyString]
          ELSE \E batch \in Batches(PreparedOperations(prismaMain, prismaPrimary)) :
               LET conn   == transactionTarget(optv)
                   inst   == IF conn = "primary" THEN prismaPrimary ELSE prismaMain
                   failed == outcome.kind # "return"
               IN  last' = [op |-> "transaction", modelName |-> "",
                            method |-> "$transaction",
                            argv |-> optv, outcome |-> outcome, batch |-> batch,
                            forwarded |-> {},
                            transaction |-> [conn |-> conn, inst |-> inst,
                                             options |-> transactionOptions(optv)],
                            \* return await inside try: every failure is caught,
                            \* logged and thrown again out of the async function
                            result |-> IF failed
                                       THEN [kind |-> "rejected",
                                             isError |-> outcome.isError,
                                             message |-> outcome.message]
                                       ELSE [kind |-> "value", isError |-> FALSE,
                                             message |-> EmptyString],
                            logged |-> IF ~ failed THEN EmptyString
                                       ELSE IF outcome.isError
                                       THEN <<"Transaction failed: ">> \o outcome.message
                                       ELSE <<"Transaction failed: ", "Unknown error">>]
    /\ UNCHANGED <<window, env, proc, globalForPrisma, clients, prismaMain, prismaPrimary,
                   loaded, startupError, inits, listeners, disc>>

(***************************************************************************)
(* 9. Other properties of the facade                                       *)
(***************************************************************************)
\* client-level members the underlying client exposes besides $transaction
ClientMembers == {"$disconnect", "$queryRaw"}

\* what the get trap of the facade returns for prop: the transaction wrapper,
\* a method proxy of the model delegate, or the main client's own property
createPrismaProxy(prop) ==
    IF prop = "$transaction" THEN "transaction"
    ELSE IF prop \in ModelNames THEN "methodProxy"
    ELSE "target"

\* prisma.<prop>() for a client-level member: the call goes to the main
\* client's own method, and a $disconnect that succeeds closes that client
FacadeMember ==
    /\ ~ proc.exited
    /\ loaded
    /\ last = NoCall
    /\ \E prop \in ClientMembers, outcome \in Outcomes :
          IF ~ isServer
          THEN /\ last' = [op |-> "member", modelName |-> "", method |-> prop,
                           argv |-> << >>, outcome |-> outcome, batch |-> << >>,
                           forwarded |-> {}, transaction |-> NoTransaction,
                           result |-> ClientOnlyError, logged |-> EmptyString]
               /\ clients' = clients
          ELSE /\ createPrismaProxy(prop) = "target"
               /\ last' = [op |-> "member", modelName |-> "", method |-> prop,
                           argv |-> << >>, outcome |-> outcome, batch |-> << >>,
                           forwarded |-> {Call("main", prismaMain, "", prop, EmptyObject)},
                           transaction |-> NoTransaction,
                           result |-> [kind |-> CASE outcome.kind = "return" -> "value"
                                                  [] outcome.kind = "throw" -> "thrown"
                                                  [] outcome.kind = "reject" -> "rejected",
                                       isError |-> outcome.isError,
                                       message |-> outcome.message],
                           logged |-> EmptyString]
               /\ clients' = IF prop = "$disconnect" /\ outcome.kind = "return"
                             THEN [clients EXCEPT ![prismaMain].open = FALSE]
                             ELSE clients
    /\ UNCHANGED <<window, env, proc, globalForPrisma, prismaMain, prismaPrimary,
                   loaded, startupError, inits, listeners, disc>>

(***************************************************************************)
(* Health check                                                            *)
(***************************************************************************)
SelectOne == [k \in {"sql"} |-> "SELECT 1"]

UndefinedClientError ==
    [kind |-> "throw", isError |-> TRUE,
     message |-> <<"Cannot read properties of undefined">>]

checkDatabaseHealth_noAwait(outcome) ==
    IF outcome.kind = "return" \/ outcome.kind = "reject"
    THEN [result |-> IF outcome.kind = "reject" THEN "rejected" ELSE "resolved",
          status |-> "healthy",
          details |-> <<"Database connection successful">>]
    ELSE [result |-> "resolved",
          status |-> "unhealthy",
          details |-> IF outcome.isError THEN outcome.message ELSE <<"Unknown error">>]

\* try { await query } catch: what the promise checkDatabaseHealth returns does
\* when the expression prismaMain.$queryRaw`SELECT 1` behaves as outcome
checkDatabaseHealth(outcome) ==
    IF outcome.kind = "return"
    THEN [result |-> "resolved",
          status |-> "healthy",
          details |-> <<"Database connection successful">>]
    ELSE [result |-> "resolved",
          status |-> "unhealthy",
          details |-> IF outcome.isError THEN outcome.message ELSE <<"Unknown error">>]

\* checkDatabaseHealth()
CheckHealth ==
    /\ ~ proc.exited
    /\ loaded
    /\ last = NoCall
    /\ \E outcome \in Outcomes :
          LET \* with no client (browser) the member access itself throws
              actual == IF prismaMain = Undefined THEN UndefinedClientError ELSE outcome
              h      == checkDatabaseHealth(actual)
          IN  last' = [op |-> "health",
                       outcome |-> actual,
                       mainOpen |-> IF prismaMain = Undefined THEN FALSE
                                    ELSE clients[prismaMain].open,
                       forwarded |-> IF prismaMain = Undefined THEN {}
                                     ELSE {Call("main", prismaMain, "", "$queryRaw",
                                                SelectOne)},
                       result |-> h.result,
                       health |-> [status |-> h.status, details |-> h.details]]
    /\ UNCHANGED <<window, env, proc, globalForPrisma, clients, prismaMain, prismaPrimary,
                   loaded, startupError, inits, listeners, disc>>

(***************************************************************************)
(* Graceful shutdown                                                       *)
(***************************************************************************)
disconnectPrisma_rethrow(awaited) ==
    IF awaited = "fulfilled"
    THEN [logged |-> "success", result |-> "resolved"]
    ELSE [logged |-> "error", result |-> "rejected"]

\* try { await Promise.all([...]); log } catch { log }: what disconnectPrisma's
\* promise does once the awaited expression has fulfilled or thrown/rejected
disconnectPrisma(awaited) ==
    IF awaited = "fulfilled"
    THEN [logged |-> "success", result |-> "resolved"]
    ELSE [logged |-> "error", result |-> "resolved"]

IsOpen(inst) == inst # Undefined /\ clients[inst].open

\* what the two $disconnect calls of Promise.all([...]) do before the await:
\* both return a promise, or one of them throws
SyncKinds == {"returns", "mainThrows", "primaryThrows"}

\* One invocation of disconnectPrisma up to its await, for the caller origin
\* and the clients mainInst and primaryInst of the module instance it belongs
\* to.  The two $disconnect calls are made in order; either may throw before
\* returning its promise.
Invocation(origin, mainInst, primaryInst, sync) ==
    IF ~ isServer
    THEN [pc |-> "done", origin |-> origin, sync |-> "none",
          mainInst |-> Undefined, primaryInst |-> Undefined,
          main |-> "none", primary |-> "none",
          alreadyClosed |-> FALSE,
          logged |-> "none", result |-> "resolved"]
    ELSE LET caught == disconnectPrisma("rejected") IN
         [pc |-> IF sync = "returns" THEN "awaiting" ELSE "done",
          origin |-> origin, sync |-> sync,
          mainInst |-> mainInst, primaryInst |-> primaryInst,
          main |-> IF sync = "mainThrows" THEN "failed" ELSE "pending",
          primary |-> CASE sync = "returns" -> "pending"
                        [] sync = "mainThrows" -> "none"
                        [] sync = "primaryThrows" -> "failed",
          alreadyClosed |-> ~ IsOpen(mainInst) /\ ~ IsOpen(primaryInst),
          logged |-> IF sync = "returns" THEN "none" ELSE caught.logged,
          result |-> IF sync = "returns" THEN "pending" ELSE caught.result]

Running == ~ proc.exited

\* disconnectPrisma() called by application code
DisconnectCall ==
    /\ Running
    /\ loaded
    /\ Len(disc) < MaxDisconnects
    /\ \E sync \in SyncKinds :
          disc' = Append(disc, Invocation("api", prismaMain, prismaPrimary, sync))
    /\ UNCHANGED <<window, env, proc, globalForPrisma, clients, prismaMain, prismaPrimary,
                   loaded, startupError, inits, listeners, last>>

\* the promise of one $disconnect call settles
DisconnectSettles ==
    \E i \in DOMAIN disc, conn \in {"main", "primary"}, ok \in BOOLEAN :
        /\ Running
        /\ disc[i][conn] = "pending"
        /\ disc' = [disc EXCEPT ![i][conn] = IF ok THEN "ok" ELSE "failed"]
        /\ LET inst == IF conn = "main" THEN disc[i].mainInst ELSE disc[i].primaryInst
           IN  clients' = IF ok THEN [clients EXCEPT ![inst].open = FALSE] ELSE clients
        /\ UNCHANGED <<window, env, proc, globalForPrisma, prismaMain, prismaPrimary,
                       loaded, startupError, inits, listeners, last>>

\* Promise.all has settled (all fulfilled, or the first rejection): the
\* awaiting disconnectPrisma resumes and returns
DisconnectResume ==
    \E i \in DOMAIN disc :
        /\ Running
        /\ disc[i].pc = "awaiting"
        /\ LET anyFailed == disc[i].main = "failed" \/ disc[i].primary = "failed"
               allOk     == disc[i].main = "ok" /\ disc[i].primary = "ok"
               r         == disconnectPrisma(IF anyFailed THEN "rejected" ELSE "fulfilled")
           IN  /\ anyFailed \/ allOk
               /\ disc' = [disc EXCEPT ![i].pc = "done",
                                       ![i].logged = r.logged,
                                       ![i].result = r.result]
        /\ UNCHANGED <<window, env, proc, globalForPrisma, clients, prismaMain, prismaPrimary,
                       loaded, startupError, inits, listeners, last>>

(***************************************************************************)
(* Termination triggers (setupGracefulShutdown)                            *)
(***************************************************************************)
Signals == {"SIGINT", "SIGTERM"}

\* the invocations of disconnectPrisma made, in registration order, by the
\* handlers that every evaluated module instance registered for one event
HandlerInvocations(origin, syncs) ==
    [k \in 1..Len(listeners) |->
        Invocation(origin, listeners[k].main, listeners[k].primary, syncs[k])]

\* SIGINT or SIGTERM is delivered: each registered handler runs shutdown(signal)
\* up to its await disconnectPrisma()
Signal ==
    /\ Running
    /\ listeners # << >>
    /\ Len(disc) + Len(listeners) <= MaxDisconnects
    /\ \E sig \in Signals, syncs \in [1..Len(listeners) -> SyncKinds] :
          disc' = disc \o HandlerInvocations(sig, syncs)
    /\ UNCHANGED <<window, env, proc, globalForPrisma, clients, prismaMain,
                   prismaPrimary, loaded, startupError, inits, listeners, last>>

\* nothing is left for the event loop to do (a finished shutdown(signal) goes
\* on to process.exit before the loop can drain)
EventLoopEmpty ==
    /\ last = NoCall
    /\ \A i \in DOMAIN disc :
          /\ disc[i].pc = "done"
          /\ disc[i].main # "pending"
          /\ disc[i].primary # "pending"
    /\ \A i \in DOMAIN disc : disc[i].origin \notin Signals

\* 'beforeExit' is emitted: each registered handler calls disconnectPrisma()
\* and drops its promise
BeforeExit ==
    /\ Running
    /\ EventLoopEmpty
    /\ listeners # << >>
    /\ Len(disc) + Len(listeners) <= MaxDisconnects
    /\ \E syncs \in [1..Len(listeners) -> SyncKinds] :
          disc' = disc \o HandlerInvocations("beforeExit", syncs)
    /\ UNCHANGED <<window, env, proc, globalForPrisma, clients, prismaMain,
                   prismaPrimary, loaded, startupError, inits, listeners, last>>

\* shutdown(signal) resumes after await disconnectPrisma(): process.exit(0)
ShutdownExit ==
    \E i \in DOMAIN disc :
        /\ Running
        /\ disc[i].origin \in Signals
        /\ disc[i].pc = "done"
        /\ proc' = [exited |-> TRUE, code |-> 0, by |-> i]
        /\ UNCHANGED <<window, env, globalForPrisma, clients, prismaMain,
                       prismaPrimary, loaded, startupError, inits, listeners,
                       last, disc>>

(***************************************************************************)
(* Initial states                                                          *)
(***************************************************************************)
EnvValues ==
    [DATABASE_URL |-> {EmptyString, PgUrl, MysqlUrl, SqliteUrl, EmbeddedPgUrl},
     DATABASE_PRIMARY_URL |-> {PgPrimaryUrl},
     NODE_ENV |-> {EmptyString, <<"development">>, <<"production">>}]

Environments == ObjectsOver(EnvValues)

\* a process before the module is first imported
Init ==
    /\ window \in BOOLEAN
    /\ env \in Environments
    /\ globalForPrisma = [prismaMain |-> Undefined, prismaPrimary |-> Undefined]
    /\ clients = << >>
    /\ prismaMain = Undefined
    /\ prismaPrimary = Undefined
    /\ loaded = FALSE
    /\ startupError = NoError
    /\ inits = 0
    /\ listeners = << >>
    /\ proc = [exited |-> FALSE, code |-> 0, by |-> 0]
    /\ last = NoCall
    /\ disc = << >>

\* processes whose configuration passes validation
InitFacade ==
    /\ Init
    /\ Has(env, "DATABASE_URL") /\ env["DATABASE_URL"] = PgUrl
    /\ Has(env, "NODE_ENV") /\ env["NODE_ENV"] # EmptyString
    /\ ~ Has(env, "DATABASE_PRIMARY_URL")

NextFacade ==
    \/ ModuleInit
    \/ EntityCall
    \/ Transaction
    \/ Return

SpecFacade == InitFacade /\ [][NextFacade]_vars

\* start-up under every configuration, and the health probe
NextStartup ==
    \/ ModuleInit
    \/ CheckHealth
    \/ Return

SpecStartup == Init /\ [][NextStartup]_vars

\* processes in development mode (server or browser) with a valid configuration
InitShutdown ==
    /\ InitFacade
    /\ env["NODE_ENV"] = <<"development">>

NextShutdown ==
    \/ ModuleInit
    \/ CheckHealth
    \/ Return
    \/ DisconnectCall
    \/ DisconnectSettles
    \/ DisconnectResume

SpecShutdown == InitShutdown /\ [][NextShutdown]_vars

\* shutdown under termination triggers, in development and production mode
NextTermination ==
    \/ ModuleInit
    \/ DisconnectCall
    \/ DisconnectSettles
    \/ DisconnectResume
    \/ Signal
    \/ BeforeExit
    \/ ShutdownExit

SpecTermination == InitFacade /\ [][NextTermination]_vars

\* application code using the facade's client-level members next to shutdown
NextSharedClients ==
    \/ ModuleInit
    \/ FacadeMember
    \/ Return
    \/ DisconnectCall
    \/ DisconnectSettles
    \/ DisconnectResume

SpecSharedClients == InitShutdown /\ [][NextSharedClients]_vars

Next ==
    \/ ModuleInit
    \/ EntityCall
    \/ Transaction
    \/ FacadeMember
    \/ CheckHealth
    \/ Return
    \/ DisconnectCall
    \/ DisconnectSettles
    \/ DisconnectResume
    \/ Signal
    \/ BeforeExit
    \/ ShutdownExit

Spec == Init /\ [][Next]_vars

(***************************************************************************)
(* Properties                                                              *)
(***************************************************************************)
\* the argument object of the per-entity call in last ({} when none was passed)
LastArgs == IF Len(last.argv) = 0 THEN EmptyObject ELSE last.argv[1]

ServerEntityCall == last.op = "entity" /\ isServer

FlagIsTrue(obj) == Has(obj, "writeToPrimary") /\ obj["writeToPrimary"] = "true"

WithoutFlag(obj) == [k \in (DOMAIN obj) \ {"writeToPrimary"} |-> obj[k]]

\* C1: a write-method call whose argument object has writeToPrimary true is
\* forwarded to the primary client's same model/method, not to main, and the
\* argument object received is the caller's with the writeToPrimary key removed.
C1_FlaggedWriteReachesPrimaryStripped ==
    (ServerEntityCall /\ last.method \in WRITE_METHODS /\ FlagIsTrue(LastArgs))
    => /\ Cardinality(last.forwarded) = 1
       /\ \A c \in last.forwarded :
            /\ c.conn = "primary"
            /\ c.modelName = last.modelName
            /\ c.member = last.method
            /\ c.args = WithoutFlag(LastArgs)

C1_Witness ==
    /\ ServerEntityCall
    /\ last.modelName = "product"
    /\ last.method = "create"
    /\ last.argv = <<[k \in {"data", "writeToPrimary"} |->
                        IF k = "data" THEN "X" ELSE "true"]>>
    /\ \E c \in last.forwarded :
          c.conn = "primary" /\ c.args = [k \in {"data"} |-> "X"]

\* C2: a write-method call whose argument object has writeToPrimary absent or
\* false, or that passes no argument, is forwarded to the main client's
\* model/method and the primary client receives no call.
C2_UnflaggedWriteReachesMainOnly ==
    (ServerEntityCall /\ last.method \in WRITE_METHODS /\ ~ FlagIsTrue(LastArgs))
    => /\ Cardinality(last.forwarded) = 1
       /\ \A c \in last.forwarded :
            /\ c.conn = "main"
            /\ c.modelName = last.modelName
            /\ c.member = last.method

C2_Witness ==
    /\ ServerEntityCall
    /\ last.method = "deleteMany"
    /\ Len(last.argv) = 1
    /\ Has(LastArgs, "writeToPrimary") /\ LastArgs["writeToPrimary"] = "false"
    /\ \E c \in last.forwarded : c.conn = "main"

\* C3: a call of a method outside the Write Method Set is forwarded only to
\* the main client, never to primary, whatever writeToPrimary its argument
\* object carries.
C3_ReadReachesMainOnly ==
    (ServerEntityCall /\ last.method \notin WRITE_METHODS)
    => /\ Cardinality(last.forwarded) = 1
       /\ \A c \in last.forwarded :
            /\ c.conn = "main"
            /\ c.modelName = last.modelName
            /\ c.member = last.method

C3_Witness ==
    /\ ServerEntityCall
    /\ last.method = "findMany"
    /\ FlagIsTrue(LastArgs)
    /\ \E c \in last.forwarded : c.conn = "main"

ServerTransaction == last.op = "transaction" /\ isServer

\* C4: in every $transaction call each operation of the batch is on the
\* primary client when options.writeToPrimary is true and on main otherwise,
\* the transaction primitive is called on that same client, and the options
\* it receives carry timeout and the passthrough options but not writeToPrimary.
C4_TransactionOnOneConnection ==
    ServerTransaction
    => LET options == LastArgs
           target  == IF FlagIsTrue(options) THEN "primary" ELSE "main"
       IN  /\ last.transaction.conn = target
           /\ \A i \in DOMAIN last.batch : last.batch[i].conn = target
           /\ ~ Has(last.transaction.options, "writeToPrimary")
           /\ \A k \in (DOMAIN options) \ {"writeToPrimary"} :
                 /\ Has(last.transaction.options, k)
                 /\ last.transaction.options[k] = options[k]

\* C5: when the forwarded call of a per-entity call fails with an Error, thrown
\* synchronously or as a later rejection, the caller receives a failure whose
\* message contains the original message, the method name and the model name.
C5_ErrorCarriesContext ==
    (ServerEntityCall /\ last.outcome.kind \in {"throw", "reject"} /\ last.outcome.isError)
    => /\ last.result.kind \in {"thrown", "rejected"}
       /\ \A i \in DOMAIN last.outcome.message :
             Contains(last.result.message, last.outcome.message[i])
       /\ Contains(last.result.message, last.method)
       /\ Contains(last.result.message, last.modelName)

\* C6: no argument or options object the facade forwards to a client (writes,
\* reads, $transaction options) contains the writeToPrimary key.
C6_RoutingKeyNeverForwarded ==
    (last.op \in {"entity", "transaction"})
    => /\ \A c \in last.forwarded : ~ Has(c.args, "writeToPrimary")
       /\ ~ Has(last.transaction.options, "writeToPrimary")

\* C7: checkDatabaseHealth never raises: it queries the main client only and
\* returns healthy exactly when the query succeeds, and otherwise unhealthy
\* with the error's message, or "Unknown error" when what failed is no Error.
C7_HealthCheckAlwaysReturns ==
    (last.op = "health")
    => /\ last.result = "resolved"
       /\ \A c \in last.forwarded : c.conn = "main" /\ c.member = "$queryRaw"
       /\ (last.health.status = "healthy") <=> (last.outcome.kind = "return")
       /\ (last.outcome.kind # "return")
            => /\ last.health.status = "unhealthy"
               /\ last.health.details =
                     IF last.outcome.isError THEN last.outcome.message
                     ELSE <<"Unknown error">>

C7_Witness ==
    /\ last.op = "health"
    /\ isServer
    /\ ~ last.mainOpen
    /\ last.outcome.kind = "reject"
    /\ ~ last.outcome.isError
    /\ last.health = [status |-> "unhealthy", details |-> <<"Unknown error">>]

\* C8: the promise disconnectPrisma returns never rejects, for each of several
\* invocations (also one made after both clients are closed) and whether a
\* client's disconnect succeeds or fails.
C8_DisconnectNeverRejects ==
    \A i \in DOMAIN disc :
        /\ disc[i].result # "rejected"
        /\ disc[i].pc = "done" => disc[i].result = "resolved"

C8_Witness ==
    /\ Len(disc) >= 2
    /\ disc[1].pc = "done"
    /\ disc[2].alreadyClosed
    /\ disc[2].pc = "done"
    /\ disc[2].main = "failed"
    /\ disc[2].logged = "error"
    /\ disc[2].result = "resolved"

Constructed(role) == { i \in DOMAIN clients : clients[i].role = role }

SlotOf(conn) ==
    IF conn = "main" THEN globalForPrisma.prismaMain ELSE globalForPrisma.prismaPrimary

NonProduction == Has(env, "NODE_ENV") /\ env["NODE_ENV"] # <<"production">>

\* C9: in a non-production mode, after any number of module evaluations at
\* most one main and one primary client have been constructed, the module's
\* clients are the ones in the process-wide slots, and every call the facade
\* forwards goes to those instances.
C9_OneInstanceAcrossReloads ==
    NonProduction
    => /\ Cardinality(Constructed("main")) <= 1
       /\ Cardinality(Constructed("primary")) <= 1
       /\ (loaded /\ isServer)
            => /\ prismaMain = globalForPrisma.prismaMain
               /\ prismaPrimary = globalForPrisma.prismaPrimary
               /\ Constructed("main") = {prismaMain}
               /\ Constructed("primary") = {prismaPrimary}
       /\ (last.op \in {"entity", "transaction"} /\ isServer)
            => /\ \A c \in last.forwarded : c.inst = SlotOf(c.conn)
               /\ \A i \in DOMAIN last.batch : last.batch[i].inst = SlotOf(last.batch[i].conn)
               /\ last.op = "transaction"
                    => last.transaction.inst = SlotOf(last.transaction.conn)

C9_Witness ==
    /\ NonProduction
    /\ isServer
    /\ inits >= 3
    /\ Len(clients) = 2
    /\ last.op = "entity"
    /\ \E c \in last.forwarded : c.conn = "primary" /\ c.inst = 2

\* the configuration the validation is meant to let through
EnvironmentValid ==
    /\ Has(env, "DATABASE_URL") /\ env["DATABASE_URL"] # EmptyString
    /\ Has(env, "NODE_ENV") /\ env["NODE_ENV"] # EmptyString
    /\ Head(env["DATABASE_URL"]) \in {"postgresql://", "mysql://"}

NothingConstructed ==
    /\ clients = << >>
    /\ globalForPrisma = [prismaMain |-> Undefined, prismaPrimary |-> Undefined]
    /\ prismaMain = Undefined
    /\ prismaPrimary = Undefined

\* C10: on the server no client is constructed unless DATABASE_URL and
\* NODE_ENV are present and DATABASE_URL begins with postgresql:// or
\* mysql://; otherwise evaluation ends in an error with nothing constructed
\* or attached to the process-wide slots.  In a browser nothing is validated
\* and nothing is constructed.
C10_NoClientWithoutValidEnvironment ==
    /\ (isServer /\ clients # << >>) => EnvironmentValid
    /\ (isServer /\ ~ EnvironmentValid /\ inits > 0)
         => /\ startupError # NoError
            /\ ~ loaded
            /\ NothingConstructed
    /\ window => (startupError = NoError /\ NothingConstructed)

C10_Witness ==
    /\ isServer
    /\ inits > 0
    /\ Has(env, "NODE_ENV") /\ env["NODE_ENV"] = <<"production">>
    /\ Has(env, "DATABASE_URL") /\ env["DATABASE_URL"] = EmbeddedPgUrl
    /\ startupError = <<"Invalid DATABASE_URL. Must start with postgresql:// or mysql://">>
    /\ NothingConstructed

Completed(i, conn) == disc[i][conn] \in {"ok", "failed"}

\* C11: the promise of disconnectPrisma resolves only after the $disconnect of
\* both the main and the primary client has completed, in every order of the
\* two and also when one of them fails; so the process.exit(0) that follows a
\* SIGINT or SIGTERM happens only after both have finished closing.
C11_ResolvesAfterBothClosed ==
    /\ \A i \in DOMAIN disc :
          (disc[i].pc = "done" /\ disc[i].sync = "returns")
          => (Completed(i, "main") /\ Completed(i, "primary"))
    /\ (proc.exited /\ disc[proc.by].sync = "returns")
          => /\ proc.code = 0
             /\ Completed(proc.by, "main")
             /\ Completed(proc.by, "primary")

\* the invocations of disconnectPrisma made by the termination handlers
TriggerInvocations ==
    { i \in DOMAIN disc : disc[i].origin \in Signals \cup {"beforeExit"} }

\* those of them that called $disconnect on client inst
DisconnectCallsOn(inst) ==
    { i \in TriggerInvocations :
        \/ disc[i].mainInst = inst /\ disc[i].main # "none"
        \/ disc[i].primaryInst = inst /\ disc[i].primary # "none" }

\* C12: over any sequence of termination triggers (beforeExit, SIGINT, SIGTERM,
\* also a signal arriving while an earlier shutdown is still awaiting), the
\* handlers call $disconnect on the main and on the primary client once each
\* and not again.
C12_EachClientDisconnectedOnce ==
    \A inst \in DOMAIN clients :
        /\ Cardinality(DisconnectCallsOn(inst)) <= 1
        /\ (\E i \in TriggerInvocations :
                /\ disc[i].sync = "returns"
                /\ inst \in {disc[i].mainInst, disc[i].primaryInst})
             => Cardinality(DisconnectCallsOn(inst)) = 1

\* client inst was closed by an invocation of disconnectPrisma
ClosedByDisconnectPrisma(inst) ==
    \E i \in DOMAIN disc :
        \/ disc[i].mainInst = inst /\ disc[i].main = "ok"
        \/ disc[i].primaryInst = inst /\ disc[i].primary = "ok"

\* C13: no call made through the exported facade closes the main or the
\* primary client: a client that is closed was closed by disconnectPrisma.
C13_OnlyDisconnectPrismaCloses ==
    \A inst \in DOMAIN clients :
        ~ clients[inst].open => ClosedByDisconnectPrisma(inst)

=============================================================================
